---------------------------- MODULE Spec2Model ----------------------------
(***************************************************************************)
(* Model of the track-seeding / joining engine of the MATHUSLA tracker     *)
(* (src/src/analysis.cc): join, join_all, partition, collapse and seed.    *)
(*                                                                         *)
(* Points are records [t, x, y, z] of integers.  Every operation is a      *)
(* pure function of its arguments in the code; each one is modelled by an  *)
(* operator that follows the code's loops, and by a small state machine    *)
(* that draws the arguments from bounded sets and applies the operator.    *)
(* join_all is modelled one iteration of its do-while loop at a time.      *)
(*                                                                         *)
(* The fitters follow: time_normalize, the construction of a track, fits   *)
(* running on several threads, and the vertex                              *)
(* (src/src/tracker/analysis/vertex.cc).  The optimizer is a black box     *)
(* whose answers are inputs of the model.                                  *)
(***************************************************************************)
EXTENDS Integers, Sequences, FiniteSets, TLC

VARIABLES
    \* join(first, second, difference)
    first, second, difference, join_result, join_pc,
    \* join_all(seeds)
    seeds, seed_buffer, seed_capacity, joined, singular, out,
    join_marks, dangling_read, partial_join_call, ja_pc,
    \* partition(points, interval, coordinate)
    part_points, part_interval, part_coordinate, part_result, part_pc,
    \* collapse(event, ds), applied once and then to its own result
    coll_event, coll_ds, coll_first, coll_clusters, coll_second, coll_pc,
    \* seed(n, event, collapse_ds, layer_dz, line_dr)
    seed_n, seed_event, seed_ds, seed_layer_dz, seed_line_dr,
    seed_points, seed_result, seed_pc,
    \* time_normalize(event)
    norm_event, norm_result, norm_pc,
    \* track(event, settings): the event given, the parameters handed to the
    \* optimizer, what the optimizer returned, and the track object
    track_event, minuit_in, minuit_flag, minuit_out, track, track_ub, track_pc,
    \* fits running on several threads: the thread_local bindings of the two
    \* objective callbacks, and for every thread its fit in flight
    _nll_fit_event, _nll_fit_tracks, fit_pc, fit_kind, fit_bound, nll_read,
    \* a vertex: the tracks it can be given, the object, the object before
    \* the last call, the call, what it returned, what the optimizer reported
    \* in the latest refit (now and before the call), whether remove read
    \* past the end of its index list, and the number of calls
    track_pool, vertex, vertex_before, vertex_call, vertex_ret, vertex_fit,
    vertex_fit_before, vertex_oob, vertex_calls

joinVars == <<first, second, difference, join_result, join_pc>>

joinAllVars == <<seeds, seed_buffer, seed_capacity, joined, singular, out,
                 join_marks, dangling_read, partial_join_call, ja_pc>>

partVars == <<part_points, part_interval, part_coordinate, part_result, part_pc>>

collVars == <<coll_event, coll_ds, coll_first, coll_clusters, coll_second,
              coll_pc>>

seedVars == <<seed_n, seed_event, seed_ds, seed_layer_dz, seed_line_dr,
              seed_points, seed_result, seed_pc>>

\* the seeding and joining operations
seedingVars == <<joinVars, joinAllVars, partVars, collVars, seedVars>>

normVars == <<norm_event, norm_result, norm_pc>>

\* the point utilities and the fitters
trackVars == <<track_event, minuit_in, minuit_flag, minuit_out, track,
               track_ub, track_pc>>

nllVars == <<_nll_fit_event, _nll_fit_tracks, fit_pc, fit_kind, fit_bound,
             nll_read>>

vertexVars == <<track_pool, vertex, vertex_before, vertex_call, vertex_ret,
                vertex_fit, vertex_fit_before, vertex_oob, vertex_calls>>

fitVars == <<normVars, trackVars, nllVars, vertexVars>>

vars == <<seedingVars, fitVars>>

---------------------------------------------------------------------------
(* Bounds of the model                                                     *)

\* size_t is 64 bits wide in the program; the model keeps the wrap-around
\* of unsigned subtraction with a narrower word (sizes stay below 2^SizeBits).
SizeBits == 16

\* join: number of distinct points, longest argument, largest difference
NumJoinPoints == 2
MaxJoinLen == 3
MaxDifference == 4

\* join_all: number of distinct points, longest input seed, longest input
\* list, and the seed_buffer size beyond which a run is not continued
NumSeedPoints == 2
MaxSeedLen == 3
MaxSeeds == 3
MaxBuffer == 8

\* partition: longest input, largest time, largest value of the chosen
\* coordinate, largest interval
MaxPartLen == 3
PartMaxT == 1
PartMaxCoord == 3
MaxInterval == 2

\* collapse: longest event, largest time and x of a hit, largest time and x
\* window (all in units of CollapseUnit)
MaxCollapseLen == 5
CollMaxT == 2
CollMaxX == 1
MaxDt == 2
MaxDx == 1

\* seed: largest n and largest number of hits of an event
MaxSeedN == 3
MaxSeedEventLen == 4

\* time_normalize: longest event and largest time of a point
MaxNormLen == 3
NormMaxT == 2

\* track: largest number of points of a fitted event
MaxTrackLen == 3

\* concurrent fits: threads, and different events or track sets
NumThreads == 2
NumFitInputs == 2

\* vertex: different tracks, and calls of insert, remove and
\* prune_on_chi_squared after the construction
NumTracks == 3
MaxVertexCalls == 2
MaxIndices == 2

---------------------------------------------------------------------------
(* Generic helpers                                                         *)

Pt(t, x, y, z) == [t |-> t, x |-> x, y |-> y, z |-> z]

SizeMod == 2 ^ SizeBits

\* unsigned (size_t) subtraction
USub(a, b) == (a - b) % SizeMod

Min(a, b) == IF a < b THEN a ELSE b

\* all sequences over S of length lo..hi
SeqsOf(S, lo, hi) == UNION {[1..n -> S] : n \in lo..hi}

\* C++ index i (0-based) of a sequence
At(s, i) == s[i + 1]

---------------------------------------------------------------------------
(* Each operation has its own state machine; the variables of the          *)
(* operations that a specification does not run stay at these values.      *)

JoinIdle ==
    /\ first = << >>
    /\ second = << >>
    /\ difference = 0
    /\ join_result = << >>
    /\ join_pc = "idle"

\* no call of _partial_join made yet
NoPartialJoin ==
    [queue |-> "none", difference |-> 0, indicies |-> << >>,
     pushed |-> FALSE, to_singular |-> << >>]

JoinAllIdle ==
    /\ seeds = << >>
    /\ seed_buffer = << >>
    /\ seed_capacity = 0
    /\ joined = << >>
    /\ singular = << >>
    /\ out = << >>
    /\ join_marks = {}
    /\ dangling_read = FALSE
    /\ partial_join_call = NoPartialJoin
    /\ ja_pc = "idle"

PartIdle ==
    /\ part_points = << >>
    /\ part_interval = 0
    /\ part_coordinate = "Z"
    /\ part_result = [parts |-> << >>, coordinate |-> "Z"]
    /\ part_pc = "idle"

CollIdle ==
    /\ coll_event = << >>
    /\ coll_ds = [t |-> 0, x |-> 0, y |-> 0, z |-> 0]
    /\ coll_first = [out |-> << >>, oob |-> FALSE]
    /\ coll_clusters = << >>
    /\ coll_second = [out |-> << >>, oob |-> FALSE]
    /\ coll_pc = "idle"

SeedIdle ==
    /\ seed_n = 0
    /\ seed_event = << >>
    /\ seed_ds = [t |-> 0, x |-> 0, y |-> 0, z |-> 0]
    /\ seed_layer_dz = 0
    /\ seed_line_dr = 0
    /\ seed_points = [out |-> << >>, oob |-> FALSE]
    /\ seed_result = << >>
    /\ seed_pc = "idle"

SeedingIdle ==
    /\ JoinIdle
    /\ JoinAllIdle
    /\ PartIdle
    /\ CollIdle
    /\ SeedIdle

NormIdle ==
    /\ norm_event = << >>
    /\ norm_result = << >>
    /\ norm_pc = "idle"

\* a fit parameter: struct fit_parameter { value, error, min, max }
FitParameter(value, error, min, max) ==
    [value |-> value, error |-> error, min |-> min, max |-> max]

NoParameters ==
    [p \in {"t0", "x0", "y0", "z0", "vx", "vy", "vz"} |-> FitParameter(0, 0, 0, 0)]

NoTrack ==
    [_event |-> << >>, _parameters |-> NoParameters,
     _delta_chi_squared |-> << >>, _squared_residuals |-> << >>]

TrackIdle ==
    /\ track_event = << >>
    /\ minuit_in = NoParameters
    /\ minuit_flag = 0
    /\ minuit_out = NoParameters
    /\ track = NoTrack
    /\ track_ub = FALSE
    /\ track_pc = "idle"

Threads == 1..NumThreads

\* no thread has started a fit: every binding is the empty vector (0)
NllIdle ==
    /\ _nll_fit_event = [th \in Threads |-> 0]
    /\ _nll_fit_tracks = [th \in Threads |-> 0]
    /\ fit_pc = [th \in Threads |-> "idle"]
    /\ fit_kind = [th \in Threads |-> "track"]
    /\ fit_bound = [th \in Threads |-> 0]
    /\ nll_read = [th \in Threads |-> 0]

\* vertex::fit_parameters{}: four fit parameters, all zero
NoFit ==
    [p \in {"t", "x", "y", "z"} |-> FitParameter(0, 0, 0, 0)]

\* the covariance matrix, row-major with indices 0..15, all zero
NoCovariance == [i \in 0..15 |-> 0]

\* a vertex without tracks
NoVertex ==
    [_tracks |-> << >>, _guess |-> NoFit, _final |-> NoFit,
     _covariance |-> NoCovariance, _delta_chi2 |-> << >>]

VertexIdle ==
    /\ track_pool = << >>
    /\ vertex = NoVertex
    /\ vertex_before = NoVertex
    /\ vertex_call = [op |-> "idle", arg |-> 0]
    /\ vertex_ret = 0
    /\ vertex_fit = "none"
    /\ vertex_fit_before = "none"
    /\ vertex_oob = FALSE
    /\ vertex_calls = 0

FitIdle ==
    /\ NormIdle
    /\ TrackIdle
    /\ NllIdle
    /\ VertexIdle

---------------------------------------------------------------------------
(* join: src/src/analysis.cc 221-246                                       *)

\* for (; index < difference; ++index) out.push_back(first[index]);
RECURSIVE JoinHead(_, _, _, _)
JoinHead(fst, diff, index, acc) ==
    IF index < diff
    THEN JoinHead(fst, diff, index + 1, Append(acc, At(fst, index)))
    ELSE acc

\* for (; index < size; ++index) out.push_back(second[index - difference]);
RECURSIVE JoinTail(_, _, _, _, _)
JoinTail(snd, diff, size, index, acc) ==
    IF index < size
    THEN JoinTail(snd, diff, size, index + 1, Append(acc, At(snd, index - diff)))
    ELSE acc

\* for (; index < difference + overlap; ++index) { if (point != second[..]) return {}; ... }
\* followed by the tail loop; a mismatch returns the empty sequence at once.
RECURSIVE JoinOverlap(_, _, _, _, _, _, _)
JoinOverlap(fst, snd, diff, overlap, size, index, acc) ==
    IF index < diff + overlap
    THEN IF At(fst, index) # At(snd, index - diff)
         THEN << >>
         ELSE JoinOverlap(fst, snd, diff, overlap, size, index + 1,
                          Append(acc, At(fst, index)))
    ELSE JoinTail(snd, diff, size, index, acc)

\* mutant: a mismatch keeps what was copied so far (a partial splice)
RECURSIVE JoinOverlapPartial(_, _, _, _, _, _, _)
JoinOverlapPartial(fst, snd, diff, overlap, size, index, acc) ==
    IF index < diff + overlap
    THEN IF At(fst, index) # At(snd, index - diff)
         THEN acc
         ELSE JoinOverlapPartial(fst, snd, diff, overlap, size, index + 1,
                                 Append(acc, At(fst, index)))
    ELSE JoinTail(snd, diff, size, index, acc)

join_partial(fst, snd, diff) ==
    LET first_size == Len(fst)
        second_size == Len(snd)
        overlap == USub(first_size, diff)
    IN  IF overlap <= 0 \/ second_size < overlap
        THEN << >>
        ELSE JoinOverlapPartial(fst, snd, diff, overlap, diff + second_size, diff,
                                JoinHead(fst, diff, 0, << >>))

\* mutant: the points of second after the overlap are not appended
join_no_tail(fst, snd, diff) ==
    LET first_size == Len(fst)
        second_size == Len(snd)
        overlap == USub(first_size, diff)
    IN  IF overlap <= 0 \/ second_size < overlap
        THEN << >>
        ELSE JoinOverlap(fst, snd, diff, overlap, diff + overlap, diff,
                         JoinHead(fst, diff, 0, << >>))

join(fst, snd, diff) ==
    LET first_size == Len(fst)
        second_size == Len(snd)
        overlap == USub(first_size, diff)
    IN  IF overlap <= 0 \/ second_size < overlap
        THEN << >>
        ELSE JoinOverlap(fst, snd, diff, overlap, diff + second_size, diff,
                         JoinHead(fst, diff, 0, << >>))

---------------------------------------------------------------------------
(* State machine of one call of join                                       *)

\* distinct points on a line, compared structurally
JoinPoints == {Pt(i, i, 0, i) : i \in 1..NumJoinPoints}

JoinSeqs == SeqsOf(JoinPoints, 0, MaxJoinLen)

JoinInit ==
    /\ FitIdle
    /\ SeedIdle
    /\ JoinAllIdle
    /\ PartIdle
    /\ CollIdle
    /\ first \in JoinSeqs
    /\ second \in JoinSeqs
    /\ difference \in 0..MaxDifference
    /\ join_result = << >>
    /\ join_pc = "call"

Join ==
    /\ join_pc = "call"
    /\ join_result' = join(first, second, difference)
    /\ join_pc' = "done"
    /\ UNCHANGED <<first, second, difference>>
    /\ UNCHANGED <<joinAllVars, partVars, collVars, seedVars>>
    /\ UNCHANGED fitVars

JoinNext == Join

SpecJoin == JoinInit /\ [][JoinNext]_vars

---------------------------------------------------------------------------
(* Claims about join                                                       *)

LastK(s, k) == SubSeq(s, Len(s) - k + 1, Len(s))
FirstK(s, k) == SubSeq(s, 1, k)
DropK(s, k) == SubSeq(s, k + 1, Len(s))

\* C2 as stated: for 1 <= k <= min(|a|,|b|), if the last k points of a equal
\* the first k points of b then join(a, b, k) is a followed by b without its
\* first k points (the third argument read as the overlap size).
C2_Original ==
    (/\ join_pc = "done"
     /\ difference >= 1
     /\ difference <= Min(Len(first), Len(second))
     /\ LastK(first, difference) = FirstK(second, difference))
    => join_result = first \o DropK(second, difference)

\* C2 amended: the third argument of join is the offset |a| - k of the overlap
\* in a, not the overlap size k: for 1 <= k <= min(|a|,|b|), if the last k points
\* of a equal the first k points of b then join(a, b, |a| - k) is a followed
\* by b without its first k points.
C2_Amended ==
    join_pc = "done" =>
        \A k \in 1..Min(Len(first), Len(second)) :
            (/\ difference = Len(first) - k
             /\ LastK(first, k) = FirstK(second, k))
            => join_result = first \o DropK(second, k)

\* a join whose overlap size differs from its difference and that extends a
C2_Witness ==
    /\ join_pc = "done"
    /\ \E k \in 1..Min(Len(first), Len(second)) :
        /\ difference = Len(first) - k
        /\ k # difference
        /\ k < Len(second)
        /\ LastK(first, k) = FirstK(second, k)
        /\ join_result = first \o DropK(second, k)

\* C3: join never returns a partial splice.  With overlap = |first| - difference
\* (computed in size_t), the result is empty if overlap is 0, if |second| < overlap
\* or if some pair first[difference+i], second[i] (0 <= i < overlap) differs;
\* otherwise it is first followed by second[overlap..], of length
\* difference + |second|.
C3_NoPartialSplice ==
    join_pc = "done" =>
        LET overlap == USub(Len(first), difference)
        IN  IF \/ overlap = 0
               \/ Len(second) < overlap
               \/ \E i \in 0..(overlap - 1) :
                     At(first, difference + i) # At(second, i)
            THEN join_result = << >>
            ELSE /\ join_result = first \o DropK(second, overlap)
                 /\ Len(join_result) = difference + Len(second)

\* a mismatch that comes after at least one matching pair, answered by the
\* empty sequence
C3_Witness ==
    /\ join_pc = "done"
    /\ LET overlap == Len(first) - difference
       IN  /\ overlap >= 2
           /\ Len(second) >= overlap
           /\ At(first, difference) = At(second, 0)
           /\ At(first, difference + 1) # At(second, 1)
    /\ join_result = << >>

---------------------------------------------------------------------------
(* join_all: src/src/analysis.cc 256-367                                   *)

\* std::vector growth on push_back at full capacity (doubling)
GrownCapacity(cap) == IF cap = 0 THEN 1 ELSE 2 * cap

\* capacity of a vector filled by n push_backs
RECURSIVE CapacityAfter(_, _, _)
CapacityAfter(n, size, cap) ==
    IF size >= n THEN cap
    ELSE CapacityAfter(n, size + 1, IF size = cap THEN GrownCapacity(cap) ELSE cap)

\* What a read of `seed` in _join_secondaries can give.  `seed` is a
\* reference into seed_buffer taken before the loop; a push_back that
\* reallocates the buffer leaves it dangling, and a later read of it is
\* undefined: the old value (memory not reused yet) or an empty, moved-from
\* vector.
SeedReads(orig, dangling) == IF dangling THEN {orig, << >>} ELSE {orig}

\* one iteration of the loop of _join_secondaries with `seed` read as seedval
JoinSecondary(seed_index, diff, indicies, i, st, seedval) ==
    LET next_seed == At(st.buf, At(indicies, i))
        joined_seed == join(seedval, next_seed, diff)
        realloc == Len(st.buf) = st.cap
    IN  IF joined_seed # << >>
        THEN [buf |-> Append(st.buf, joined_seed),
              cap |-> IF realloc THEN GrownCapacity(st.cap) ELSE st.cap,
              marks |-> st.marks \cup {i, seed_index},
              to_joined |-> Append(st.to_joined, Len(st.buf)),
              dangling |-> st.dangling \/ realloc,
              ub |-> st.ub \/ st.dangling]
        ELSE [st EXCEPT !.ub = st.ub \/ st.dangling]

\* _join_secondaries from iteration i on: the set of states it can end in
RECURSIVE _join_secondaries(_, _, _, _, _)
_join_secondaries(seed_index, diff, indicies, i, st) ==
    IF i >= Len(indicies)
    THEN {st}
    ELSE UNION {
           _join_secondaries(seed_index, diff, indicies, i + 1,
                             JoinSecondary(seed_index, diff, indicies, i, st, v))
           : v \in SeedReads(At(st.buf, At(indicies, seed_index)), st.dangling)}

\* for (index = 0; index < size; ++index) _join_secondaries(index, ...)
RECURSIVE PartialJoinLoop(_, _, _, _)
PartialJoinLoop(diff, indicies, index, states) ==
    IF index >= Len(indicies)
    THEN states
    ELSE PartialJoinLoop(diff, indicies, index + 1,
           UNION {_join_secondaries(index, diff, indicies, 0,
                                    [st EXCEPT !.dangling = FALSE])
                  : st \in states})

\* a variant that pushes the whole worklist to the singular queue
RECURSIVE ToSingularAll(_, _, _)
ToSingularAll(indicies, marks, i) ==
    IF i >= Len(indicies) THEN << >>
    ELSE <<At(indicies, i)>> \o ToSingularAll(indicies, marks, i + 1)

\* indicies[i] for the i not marked in join_list, in order
RECURSIVE ToSingular(_, _, _)
ToSingular(indicies, marks, i) ==
    IF i >= Len(indicies) THEN << >>
    ELSE (IF i \in marks THEN << >> ELSE <<At(indicies, i)>>)
         \o ToSingular(indicies, marks, i + 1)

\* seed_buffer[indicies[i]] for every i, in order
RECURSIVE BufferSeeds(_, _, _)
BufferSeeds(buf, indicies, i) ==
    IF i >= Len(indicies) THEN << >>
    ELSE <<At(buf, At(indicies, i))>> \o BufferSeeds(buf, indicies, i + 1)

\* the end of _partial_join for one final state st of its loop: a worklist
\* of at most one seed is dropped (size <= 1: return false); with joins the
\* two new worklists are queued; without, the worklist's seeds are output
PartialJoinEnd(indicies, jq, sq, o, marked, st) ==
    IF Len(indicies) <= 1
    THEN [buf |-> st.buf, cap |-> st.cap, joined |-> jq, singular |-> sq,
          out |-> o, marks |-> marked, ub |-> st.ub]
    ELSE IF st.to_joined # << >>
    THEN [buf |-> st.buf, cap |-> st.cap,
          joined |-> Append(jq, st.to_joined),
          singular |-> Append(sq, ToSingular(indicies, st.marks, 0)),
          out |-> o,
          marks |-> marked \cup {At(indicies, i) : i \in st.marks},
          ub |-> st.ub]
    ELSE [buf |-> st.buf, cap |-> st.cap, joined |-> jq, singular |-> sq,
          out |-> o \o BufferSeeds(st.buf, indicies, 0),
          marks |-> marked, ub |-> st.ub]

\* _partial_join: the set of results it can give
_partial_join(buf, cap, indicies, diff, jq, sq, o, marked, ub) ==
    LET st0 == [buf |-> buf, cap |-> cap, marks |-> {}, to_joined |-> << >>,
                dangling |-> FALSE, ub |-> ub]
        ends == IF Len(indicies) <= 1
                THEN {st0}
                ELSE PartialJoinLoop(diff, indicies, 0, {st0})
    IN  {PartialJoinEnd(indicies, jq, sq, o, marked, st) : st \in ends}

JoinAllPoints == {Pt(i, i, 0, i) : i \in 1..NumSeedPoints}

SeedPool == SeqsOf(JoinAllPoints, 1, MaxSeedLen)

\* join_all up to the call of _full_join: seed_buffer is a copy of seeds and
\* the joined queue holds one worklist with every index
JoinAllInit ==
    /\ FitIdle
    /\ SeedIdle
    /\ JoinIdle
    /\ PartIdle
    /\ CollIdle
    /\ seeds \in SeqsOf(SeedPool, 0, MaxSeeds)
    /\ seed_buffer = seeds
    /\ seed_capacity = CapacityAfter(Len(seeds), 0, 0)
    /\ joined = << [i \in 1..Len(seeds) |-> i - 1] >>
    /\ singular = << >>
    /\ out = << >>
    /\ join_marks = {}
    /\ dangling_read = FALSE
    /\ partial_join_call = NoPartialJoin
    /\ ja_pc = "joined"

\* _join_next_in_queue(queue, seed_buffer, diff, joined, singular, out);
\* partial_join_call records the call of _partial_join it makes: the queue
\* the worklist came from, the difference passed, the worklist, and the
\* singular worklist pushed for it, if one was pushed
JoinNextInQueue(fromJoined, diff) ==
    LET queue == IF fromJoined THEN joined ELSE singular
    IN  IF queue = << >>
        THEN UNCHANGED <<seed_buffer, seed_capacity, joined, singular, out,
                         join_marks, dangling_read, partial_join_call>>
        ELSE \E r \in _partial_join(seed_buffer, seed_capacity, Head(queue), diff,
                                    IF fromJoined THEN Tail(joined) ELSE joined,
                                    IF fromJoined THEN singular ELSE Tail(singular),
                                    out, join_marks, dangling_read) :
                /\ seed_buffer' = r.buf
                /\ seed_capacity' = r.cap
                /\ joined' = r.joined
                /\ singular' = r.singular
                /\ out' = r.out
                /\ join_marks' = r.marks
                /\ dangling_read' = r.ub
                /\ partial_join_call' =
                     LET pushed == Len(r.joined) >
                                     Len(IF fromJoined THEN Tail(joined) ELSE joined)
                     IN  [queue |-> IF fromJoined THEN "joined" ELSE "singular",
                          difference |-> diff,
                          indicies |-> Head(queue),
                          pushed |-> pushed,
                          to_singular |-> IF pushed
                                          THEN r.singular[Len(r.singular)]
                                          ELSE << >>]

\* where _full_join goes on after a call: seed_buffer.push_back
\* (analysis.cc:267) throws std::bad_alloc once the buffer would hold more
\* seeds than the memory has room for (MaxBuffer), and join_all is left by
\* the exception
AfterPush(buf, next) == IF Len(buf) > MaxBuffer THEN "bad_alloc" ELSE next

\* _full_join, first half of the loop body: the joined queue, difference 1
JoinNextJoined ==
    /\ ja_pc = "joined"
    /\ JoinNextInQueue(TRUE, 1)
    /\ ja_pc' = AfterPush(seed_buffer', "singular")
    /\ UNCHANGED seeds
    /\ UNCHANGED <<joinVars, partVars, collVars, seedVars>>
    /\ UNCHANGED fitVars

\* _full_join, second half of the loop body and the loop test: the singular
\* queue, difference 2
JoinNextSingular ==
    /\ ja_pc = "singular"
    /\ JoinNextInQueue(FALSE, 2)
    /\ ja_pc' = AfterPush(seed_buffer',
                          IF joined' # << >> \/ singular' # << >>
                          THEN "joined" ELSE "done")
    /\ UNCHANGED seeds
    /\ UNCHANGED <<joinVars, partVars, collVars, seedVars>>
    /\ UNCHANGED fitVars

JoinAllNext == JoinNextJoined \/ JoinNextSingular

SpecJoinAll == JoinAllInit /\ [][JoinAllNext]_vars

\* _full_join is one sequential loop: a call that can be made is made
SpecJoinAllFair == SpecJoinAll /\ WF_vars(JoinAllNext)

---------------------------------------------------------------------------
(* Claims about join_all                                                   *)

Count(s, v) == Cardinality({i \in 1..Len(s) : s[i] = v})

\* seed s joins with no seed of the list, itself included, as first or as
\* second argument, at the differences 1 and 2 that _full_join uses
Unjoinable(s, list) ==
    \A j \in 1..Len(list) : \A d \in {1, 2} :
        /\ join(s, list[j], d) = << >>
        /\ join(list[j], s, d) = << >>

\* C1 as stated: every input seed that cannot be joined with any seed of the
\* list appears in the output of join_all unchanged and exactly once, also
\* when it is the only seed of its worklist.
C1_UnmatchedKept ==
    (ja_pc = "done" /\ ~dangling_read) =>
        \A i \in 1..Len(seeds) :
            Unjoinable(seeds[i], seeds) =>
                Count(out, seeds[i]) = Count(seeds, seeds[i])

\* C4 as stated: every seed created by a successful join that takes part in
\* no successful join itself appears in the output of join_all, whatever the
\* size of its worklist.
C4_JoinedKept ==
    (ja_pc = "done" /\ ~dangling_read) =>
        \A idx \in Len(seeds)..(Len(seed_buffer) - 1) :
            idx \notin join_marks => Count(out, At(seed_buffer, idx)) >= 1

\* two seeds that overlap each other cyclically: each joins the other at
\* difference 1
CyclicSeeds ==
    << <<Pt(1, 1, 0, 1), Pt(2, 2, 0, 2)>>, <<Pt(2, 2, 0, 2), Pt(1, 1, 0, 1)>> >>

\* On CyclicSeeds every pass of the loop finds the joined queue holding one
\* worklist of two seeds, joins each with the other into two seeds one point
\* longer, and queues those: no push_back reallocates the buffer under a
\* live reference, and the state with both queues empty is never reached.
CyclicRegenerates ==
    seeds = CyclicSeeds =>
        /\ ~dangling_read
        /\ ja_pc # "done"
        /\ ja_pc \in {"joined", "singular"} =>
              /\ Len(joined) = 1
              /\ Len(Head(joined)) = 2
              /\ LET a == At(seed_buffer, At(Head(joined), 0))
                     b == At(seed_buffer, At(Head(joined), 1))
                 IN  /\ join(a, b, 1) # << >>
                     /\ join(b, a, 1) # << >>
                     /\ Len(a) = Len(b)
                     /\ 2 * Len(a) = Len(seed_buffer) + 2
        /\ ja_pc = "singular" => singular = << << >> >>

\* C21 as stated: join_all terminates on every finite list of finite seeds;
\* the loop over the joined and singular queues reaches the state where
\* both queues are empty, also for seeds that contain repeated points or
\* that overlap each other cyclically.
C21_Terminates == <>(ja_pc = "done")

\* seed i of the worklist of call c took part in a successful join: as the
\* first or as the second argument of join, with some seed of the worklist
TookPart(c, i) ==
    \E j \in 0..(Len(c.indicies) - 1) :
        LET a == At(seed_buffer, At(c.indicies, i))
            b == At(seed_buffer, At(c.indicies, j))
        IN  \/ join(a, b, c.difference) # << >>
            \/ join(b, a, c.difference) # << >>

\* C22: in every iteration of join_all's loop a worklist taken from the
\* joined queue is processed with difference 1 and one taken from the
\* singular queue with difference 2, no worklist is processed with a
\* difference above 2, and every seed of a processed worklist that took
\* part in a successful join is left out of the singular worklist pushed
\* for it.
C22_Differences ==
    LET c == partial_join_call
    IN  /\ c.queue = "joined" => c.difference = 1
        /\ c.queue = "singular" => c.difference = 2
        /\ c.difference <= 2
        /\ (c.pushed /\ ~dangling_read) =>
              \A i \in 0..(Len(c.indicies) - 1) :
                  TookPart(c, i) =>
                      \A k \in 1..Len(c.to_singular) :
                          c.to_singular[k] # At(c.indicies, i)

\* a worklist from the singular queue, processed with a successful join,
\* for which a singular worklist with the seeds left over was pushed
C22_Witness ==
    LET c == partial_join_call
    IN  /\ c.queue = "singular"
        /\ c.pushed
        /\ ~dangling_read
        /\ c.to_singular # << >>
        /\ Len(c.to_singular) < Len(c.indicies)

---------------------------------------------------------------------------
(* Sorting helpers (type.hh, not part of the sources at hand)              *)

Coordinates == {"T", "X", "Y", "Z"}

Coord(p, c) ==
    CASE c = "T" -> p.t
      [] c = "X" -> p.x
      [] c = "Y" -> p.y
      [] c = "Z" -> p.z

\* p inserted behind every element whose coordinate c is not larger
RECURSIVE InsertByCoord(_, _, _)
InsertByCoord(s, p, c) ==
    IF s = << >> THEN <<p>>
    ELSE IF Coord(p, c) < Coord(Head(s), c) THEN <<p>> \o s
    ELSE <<Head(s)>> \o InsertByCoord(Tail(s), p, c)

RECURSIVE SortFrom(_, _, _, _)
SortFrom(s, c, i, acc) ==
    IF i > Len(s) THEN acc
    ELSE SortFrom(s, c, i + 1, InsertByCoord(acc, s[i], c))

\* ascending by coordinate, equal elements in their input order
coordinate_stable_copy_sort(points, c) == SortFrom(points, c, 1, << >>)

\* ascending by time
t_sort(points) == coordinate_stable_copy_sort(points, "T")

t_copy_sort(points) == coordinate_stable_copy_sort(points, "T")

---------------------------------------------------------------------------
(* partition: src/src/analysis.cc 110-144                                  *)

\* mutant: the break test reads z whatever the coordinate
LayerBreakZOnly(next, point, interval, c) == next.z > point.z + interval

\* a variant whose break test is not strict
LayerBreakInclusive(next, point, interval, c) ==
    Coord(next, c) >= Coord(point, c) + interval

\* the break test of the inner loop (lines 130-133)
LayerBreak(next, point, interval, c) ==
    \/ (c = "T" /\ next.t > point.t + interval)
    \/ (c = "X" /\ next.x > point.x + interval)
    \/ (c = "Y" /\ next.y > point.y + interval)
    \/ (c = "Z" /\ next.z > point.z + interval)

\* mutant: the point that ends a layer is counted but starts no layer
RECURSIVE FillLayerDrop(_, _, _, _, _, _)
FillLayerDrop(sorted, interval, c, point, count, layer) ==
    IF count < Len(sorted)
    THEN LET next == At(sorted, count)
         IN  IF LayerBreak(next, point, interval, c)
             THEN [layer |-> layer, count |-> count + 1]
             ELSE FillLayerDrop(sorted, interval, c, point, count + 1,
                                Append(layer, next))
    ELSE [layer |-> layer, count |-> count]

\* the inner loop: current_layer and count when it ends.  point_iter is at
\* sorted_points[count] whenever the loop reads it.
RECURSIVE FillLayer(_, _, _, _, _, _)
FillLayer(sorted, interval, c, point, count, layer) ==
    IF count < Len(sorted)
    THEN LET next == At(sorted, count)
         IN  IF LayerBreak(next, point, interval, c)
             THEN [layer |-> layer, count |-> count]
             ELSE FillLayer(sorted, interval, c, point, count + 1,
                            Append(layer, next))
    ELSE [layer |-> layer, count |-> count]

\* the outer loop
RECURSIVE PartitionLoop(_, _, _, _, _)
PartitionLoop(sorted, interval, c, count, parts) ==
    IF count < Len(sorted)
    THEN LET point == At(sorted, count)
             filled == FillLayer(sorted, interval, c, point, count + 1, <<point>>)
         IN  PartitionLoop(sorted, interval, c, filled.count,
                           Append(parts, t_sort(filled.layer)))
    ELSE parts

partition(points, interval, c) ==
    IF points = << >>
    THEN [parts |-> << >>, coordinate |-> c]
    ELSE [parts |-> PartitionLoop(coordinate_stable_copy_sort(points, c),
                                  interval, c, 0, << >>),
          coordinate |-> c]

---------------------------------------------------------------------------
(* State machine of one call of partition                                  *)

\* the points offered to partition by coordinate c: the time and the chosen
\* coordinate vary
PartPoints(c) ==
    IF c = "T"
    THEN {Pt(v, 0, 0, 0) : v \in 0..PartMaxCoord}
    ELSE {Pt(t, IF c = "X" THEN v ELSE 0, IF c = "Y" THEN v ELSE 0,
             IF c = "Z" THEN v ELSE 0) : t \in 0..PartMaxT, v \in 0..PartMaxCoord}

PartitionInit ==
    /\ FitIdle
    /\ SeedIdle
    /\ JoinIdle
    /\ JoinAllIdle
    /\ CollIdle
    /\ part_coordinate \in Coordinates
    /\ part_points \in SeqsOf(PartPoints(part_coordinate), 0, MaxPartLen)
    /\ part_interval \in 0..MaxInterval
    /\ part_result = [parts |-> << >>, coordinate |-> "Z"]
    /\ part_pc = "call"

Partition ==
    /\ part_pc = "call"
    /\ part_result' = partition(part_points, part_interval, part_coordinate)
    /\ part_pc' = "done"
    /\ UNCHANGED <<part_points, part_interval, part_coordinate>>
    /\ UNCHANGED <<joinVars, joinAllVars, collVars, seedVars>>
    /\ UNCHANGED fitVars

PartitionNext == Partition

SpecPartition == PartitionInit /\ [][PartitionNext]_vars

---------------------------------------------------------------------------
(* Claims about partition                                                  *)

RECURSIVE Flatten(_)
Flatten(ss) == IF ss = << >> THEN << >> ELSE Head(ss) \o Flatten(Tail(ss))

RECURSIVE SumLen(_)
SumLen(ss) == IF ss = << >> THEN 0 ELSE Len(Head(ss)) + SumLen(Tail(ss))

Range(s) == {s[i] : i \in 1..Len(s)}

SameBag(s, r) == \A v \in Range(s) \cup Range(r) : Count(s, v) = Count(r, v)

\* C5: partition neither drops nor duplicates points: the layer sizes sum to
\* the input size, the layers together hold the input's points with their
\* multiplicities, no layer is empty and an empty input gives no layer.
C5_PartitionConserves ==
    part_pc = "done" =>
        LET parts == part_result.parts
        IN  /\ SumLen(parts) = Len(part_points)
            /\ SameBag(Flatten(parts), part_points)
            /\ \A k \in 1..Len(parts) : parts[k] # << >>
            /\ (part_points = << >> => parts = << >>)

\* an input with equal points that is split into several layers
C5_Witness ==
    /\ part_pc = "done"
    /\ Len(part_result.parts) >= 2
    /\ \E i, j \in 1..Len(part_points) : i # j /\ part_points[i] = part_points[j]
    /\ SumLen(part_result.parts) = Len(part_points)

MinCoord(layer, c) ==
    CHOOSE m \in {Coord(p, c) : p \in Range(layer)} :
        \A p \in Range(layer) : m <= Coord(p, c)

\* C6: in every layer each point's chosen coordinate lies between c0 and
\* c0 + interval inclusive, c0 being the smallest value of that coordinate in
\* the layer.
C6_LayerWidth ==
    part_pc = "done" =>
        \A k \in 1..Len(part_result.parts) :
            LET layer == part_result.parts[k]
                c0 == MinCoord(layer, part_coordinate)
            IN  \A p \in Range(layer) :
                    /\ c0 <= Coord(p, part_coordinate)
                    /\ Coord(p, part_coordinate) <= c0 + part_interval

\* a layer that is exactly one interval wide, followed by another layer
C6_Witness ==
    /\ part_pc = "done"
    /\ part_interval >= 1
    /\ Len(part_result.parts) >= 2
    /\ LET layer == part_result.parts[1]
           c0 == MinCoord(layer, part_coordinate)
       IN  \E p \in Range(layer) : Coord(p, part_coordinate) = c0 + part_interval

\* C24: partition returns its layers in ascending coordinate order with
\* greedy boundaries: the smallest coordinate value in layer k+1 is strictly
\* greater than the smallest coordinate value in layer k plus interval,
\* every point in layer k+1 has a coordinate value >= every point in layer
\* k, and inside each layer the points are sorted ascending by time.
C24_LayersOrdered ==
    part_pc = "done" =>
        LET parts == part_result.parts
            c == part_coordinate
        IN  /\ \A k \in 1..(Len(parts) - 1) :
                  /\ MinCoord(parts[k + 1], c) > MinCoord(parts[k], c) + part_interval
                  /\ \A p \in Range(parts[k]) : \A n \in Range(parts[k + 1]) :
                        Coord(n, c) >= Coord(p, c)
            /\ \A k \in 1..Len(parts) :
                  \A i \in 1..(Len(parts[k]) - 1) :
                      parts[k][i].t <= parts[k][i + 1].t

\* several layers, one of them holding an earlier point of larger
\* coordinate value in front of a later point of smaller value
C24_Witness ==
    /\ part_pc = "done"
    /\ part_interval >= 1
    /\ Len(part_result.parts) >= 2
    /\ \E k \in 1..Len(part_result.parts) :
          LET layer == part_result.parts[k]
          IN  \E i, j \in 1..Len(layer) :
                  /\ i < j
                  /\ layer[i].t < layer[j].t
                  /\ Coord(layer[i], part_coordinate) > Coord(layer[j], part_coordinate)

---------------------------------------------------------------------------
(* Point arithmetic (type.hh, not part of the sources at hand)             *)

PtAdd(a, b) == Pt(a.t + b.t, a.x + b.x, a.y + b.y, a.z + b.z)
PtSub(a, b) == Pt(a.t - b.t, a.x - b.x, a.y - b.y, a.z - b.z)

\* sum / collected.  Coordinates are real numbers in the program; the model
\* keeps them as integer multiples of 1/CollapseUnit of the input grid, so
\* that every mean of up to MaxCollapseLen grid points, and every mean of
\* such means, is an integer and the division is exact.
PtDiv(a, k) == Pt(a.t \div k, a.x \div k, a.y \div k, a.z \div k)

Abs(v) == IF v < 0 THEN -v ELSE v

RECURSIVE Factorial(_)
Factorial(n) == IF n <= 1 THEN 1 ELSE n * Factorial(n - 1)

CollapseUnit == Factorial(MaxCollapseLen) * Factorial(MaxCollapseLen)

\* next lies in the box of half-widths ds.x, ds.y, ds.z around point
within_dr(point, next, ds) ==
    /\ Abs(point.x - next.x) <= ds.x
    /\ Abs(point.y - next.y) <= ds.y
    /\ Abs(point.z - next.z) <= ds.z

---------------------------------------------------------------------------
(* time_normalize and collapse: src/src/analysis.cc 45-106                 *)

RECURSIVE MapSub(_, _)
MapSub(points, min) ==
    IF points = << >> THEN << >>
    ELSE <<PtSub(Head(points), min)>> \o MapSub(Tail(points), min)

\* the time subtracted is that of the first point of the event as given
\* (event.front()), not of the first point after sorting
time_normalize(event) ==
    IF Len(event) = 0 THEN << >>
    ELSE MapSub(t_copy_sort(event), Pt(event[1].t, 0, 0, 0))

\* while (!marked_indicies.empty() && index++ == marked_indicies.front())
\*   marked_indicies.pop();
\* index++ is evaluated whenever the queue is not empty, also when the
\* comparison fails.
RECURSIVE SkipMarked(_, _)
SkipMarked(index, marked) ==
    IF marked = << >> THEN [index |-> index, marked |-> marked]
    ELSE IF index = Head(marked) THEN SkipMarked(index + 1, Tail(marked))
    ELSE [index |-> index + 1, marked |-> marked]

\* if (skipped) marked_indicies.push(index);
MarkAbsorbed(marked, skipped, index) ==
    IF skipped THEN Append(marked, index) ELSE marked

\* The inner loop of collapse from `while (++index < size)` on.  A read of
\* sorted_event[index] with index >= size is past the end of the vector:
\* what it gives is not defined, the model takes the point `garbage` and
\* records the read in oob.
RECURSIVE CollapseInner(_, _, _, _, _)
CollapseInner(sorted, ds, point, st, garbage) ==
    LET size == Len(sorted)
        time_interval == point.t + ds.t
    IN  IF st.index + 1 >= size
        THEN [st EXCEPT !.index = st.index + 1]
        ELSE LET sk == SkipMarked(st.index + 1, st.marked)
                 index == sk.index
                 past == index >= size
                 next == IF past THEN garbage ELSE At(sorted, index)
                 st1 == [st EXCEPT !.index = index, !.marked = sk.marked,
                                   !.oob = st.oob \/ past]
             IN  IF next.t > time_interval
                 THEN st1
                 ELSE IF within_dr(point, next, ds)
                 THEN CollapseInner(sorted, ds, point,
                        [st1 EXCEPT !.collected = st.collected + 1,
                                    !.sum = PtAdd(st.sum, next),
                                    !.absorbed = Append(st.absorbed, index),
                                    !.marked = MarkAbsorbed(sk.marked, st.skipped, index)],
                        garbage)
                 ELSE IF ~st.skipped
                 THEN CollapseInner(sorted, ds, point,
                        [st1 EXCEPT !.skipped = TRUE, !.missed_index = index],
                        garbage)
                 ELSE CollapseInner(sorted, ds, point, st1, garbage)

\* the outer loop: one cluster per iteration.  clusters keeps, for every
\* iteration, the index it started at, the indices whose points went into
\* sum (the start included, in the order read), and skipped / missed_index
\* as they are at the end of the inner loop.
RECURSIVE CollapseOuter(_, _, _, _, _, _, _, _)
CollapseOuter(sorted, ds, index, marked, acc, clusters, oob, garbage) ==
    IF index < Len(sorted)
    THEN LET point == At(sorted, index)
             st == CollapseInner(sorted, ds, point,
                     [index |-> index, marked |-> marked, collected |-> 1,
                      missed_index |-> 0, sum |-> point, skipped |-> FALSE,
                      absorbed |-> <<index>>, oob |-> oob],
                     garbage)
         IN  CollapseOuter(sorted, ds,
                           IF st.skipped THEN st.missed_index ELSE st.index,
                           st.marked,
                           Append(acc, PtDiv(st.sum, st.collected)),
                           Append(clusters,
                                  [start |-> index, absorbed |-> st.absorbed,
                                   skipped |-> st.skipped,
                                   missed_index |-> st.missed_index]),
                           st.oob, garbage)
    ELSE [out |-> acc, oob |-> oob, clusters |-> clusters]

\* collapse(event, ds) with the record of its iterations
collapse_clusters(event, ds, garbage) ==
    IF Len(event) = 0
    THEN [out |-> << >>, oob |-> FALSE, clusters |-> << >>]
    ELSE CollapseOuter(time_normalize(event), ds, 0, << >>, << >>, << >>,
                       FALSE, garbage)

\* collapse(event, ds): its result, and whether it read past the end of
\* sorted_event
collapse(event, ds, garbage) ==
    LET r == collapse_clusters(event, ds, garbage)
    IN  [out |-> r.out, oob |-> r.oob]

---------------------------------------------------------------------------
(* State machine: collapse, then collapse of the result                    *)

Scaled(p) == Pt(p.t * CollapseUnit, p.x * CollapseUnit,
                p.y * CollapseUnit, p.z * CollapseUnit)

CollapsePoints == {Scaled(Pt(t, x, 0, 0)) : t \in 0..CollMaxT, x \in 0..CollMaxX}

CollapseWindows == {Scaled(Pt(dt, dx, 0, 0)) : dt \in 0..MaxDt, dx \in 0..MaxDx}

CollapseInit ==
    /\ FitIdle
    /\ SeedIdle
    /\ JoinIdle
    /\ JoinAllIdle
    /\ PartIdle
    /\ coll_event \in SeqsOf(CollapsePoints, 0, MaxCollapseLen)
    /\ coll_ds \in CollapseWindows
    /\ coll_first = [out |-> << >>, oob |-> FALSE]
    /\ coll_clusters = << >>
    /\ coll_second = [out |-> << >>, oob |-> FALSE]
    /\ coll_pc = "call"

\* what a read past the end of sorted_event may give: any point if collapse
\* of this event makes such a read, and of no account otherwise
GarbageFor(event, ds, points) ==
    LET any == CHOOSE g \in points : TRUE
    IN  IF collapse(event, ds, any).oob THEN points ELSE {any}

Collapse ==
    /\ coll_pc = "call"
    /\ \E garbage \in GarbageFor(coll_event, coll_ds, CollapsePoints) :
           /\ coll_first' = collapse(coll_event, coll_ds, garbage)
           /\ coll_clusters' = collapse_clusters(coll_event, coll_ds, garbage).clusters
    /\ coll_pc' = "once"
    /\ UNCHANGED <<coll_event, coll_ds, coll_second>>
    /\ UNCHANGED <<joinVars, joinAllVars, partVars, seedVars>>
    /\ UNCHANGED fitVars

CollapseAgain ==
    /\ coll_pc = "once"
    /\ \E garbage \in GarbageFor(coll_first.out, coll_ds, CollapsePoints) :
           coll_second' = collapse(coll_first.out, coll_ds, garbage)
    /\ coll_pc' = "twice"
    /\ UNCHANGED <<coll_event, coll_ds, coll_first, coll_clusters>>
    /\ UNCHANGED <<joinVars, joinAllVars, partVars, seedVars>>
    /\ UNCHANGED fitVars

CollapseNext == Collapse \/ CollapseAgain

SpecCollapse == CollapseInit /\ [][CollapseNext]_vars

---------------------------------------------------------------------------
(* Claims about collapse                                                   *)

\* no two points of r lie within ds of each other (time and space)
Separated(r, ds) ==
    \A i, j \in 1..Len(r) :
        i # j => ~(Abs(r[i].t - r[j].t) <= ds.t /\ within_dr(r[i], r[j], ds))

\* C7 as stated: when no two points of collapse(e, ds) lie within ds of each
\* other, collapse(collapse(e, ds), ds) equals collapse(e, ds) point for
\* point, times included.  (Stated for the runs without a read past the end
\* of sorted_event, whose results are defined.)
C7_Idempotent ==
    (/\ coll_pc = "twice"
     /\ ~coll_first.oob
     /\ ~coll_second.oob
     /\ Separated(coll_first.out, coll_ds))
    => coll_second.out = coll_first.out

\* sorted_event of the first call of collapse
CollSorted == time_normalize(coll_event)

\* the point at index j matches the cluster started at index i: it lies in
\* the time window of that point and within ds of it
Matches(i, j) ==
    LET point == At(CollSorted, i)
        next == At(CollSorted, j)
    IN  /\ next.t <= point.t + coll_ds.t
        /\ within_dr(point, next, coll_ds)

\* C23 as stated: when a cluster started at time-sorted point p meets a
\* first point q inside p's time window that is not within ds of p, the
\* cluster keeps absorbing later matching points, and q is the starting
\* point of the next cluster: q is neither absorbed into p's cluster nor
\* skipped.  (Stated for the runs without a read past the end of
\* sorted_event, whose results are defined.)
C23_SkippedStartsNext ==
    (coll_pc # "call" /\ ~coll_first.oob) =>
        \A k \in 1..Len(coll_clusters) :
            LET c == coll_clusters[k]
                q == c.missed_index
            IN  c.skipped =>
                  /\ \A n \in 1..Len(c.absorbed) : c.absorbed[n] # q
                  /\ k < Len(coll_clusters)
                  /\ coll_clusters[k + 1].start = q
                  /\ \A j \in (q + 1)..(Len(CollSorted) - 1) :
                        Matches(c.start, j) =>
                            \E n \in 1..Len(c.absorbed) : c.absorbed[n] = j

\* the number of clusters that took in the point at index j, each as often
\* as it took it
RECURSIVE TimesAbsorbed(_, _)
TimesAbsorbed(clusters, j) ==
    IF clusters = << >> THEN 0
    ELSE Count(Head(clusters).absorbed, j) + TimesAbsorbed(Tail(clusters), j)

RECURSIVE SumAbsorbed(_)
SumAbsorbed(clusters) ==
    IF clusters = << >> THEN 0
    ELSE Len(Head(clusters).absorbed) + SumAbsorbed(Tail(clusters))

\* the sum of the points of sorted at the given indices
RECURSIVE SumAt(_, _)
SumAt(sorted, indices) ==
    IF indices = << >> THEN Pt(0, 0, 0, 0)
    ELSE PtAdd(At(sorted, Head(indices)), SumAt(sorted, Tail(indices)))

\* C25 as stated: collapse conserves points; for every event and ds every
\* input point is absorbed into exactly one output point, so the absorbed
\* counts of the output clusters sum to the input size, no point is counted
\* in two clusters and none is left out, and each output point is the
\* component-wise mean of the points it absorbed.  (Stated for the runs
\* without a read past the end of sorted_event, and with the points as
\* time_normalize gives them.)
C25_Conserves ==
    (coll_pc # "call" /\ ~coll_first.oob) =>
        /\ Len(coll_clusters) = Len(coll_first.out)
        /\ SumAbsorbed(coll_clusters) = Len(coll_event)
        /\ \A j \in 0..(Len(coll_event) - 1) :
              TimesAbsorbed(coll_clusters, j) = 1
        /\ \A k \in 1..Len(coll_clusters) :
              LET c == coll_clusters[k]
              IN  coll_first.out[k] =
                    PtDiv(SumAt(CollSorted, c.absorbed), Len(c.absorbed))

\* C26 as stated: during collapse every read sorted_event[index] uses an
\* index strictly below the event size, for every event and ds, including
\* after the marked-index queue has advanced the cursor.
C26_ReadsInBounds == coll_pc # "call" => ~coll_first.oob

---------------------------------------------------------------------------
(* fast_line_check and seed: src/src/analysis.cc 158-211                   *)

\* point_line_distance(point, begin, end) <= threshold, for threshold >= 0:
\* the distance in space of point from the line through begin and end is
\* |(point - begin) x (end - begin)| / |end - begin|; compared in squares
PointLineWithin(point, begin, end, threshold) ==
    LET ux == point.x - begin.x
        uy == point.y - begin.y
        uz == point.z - begin.z
        vx == end.x - begin.x
        vy == end.y - begin.y
        vz == end.z - begin.z
        cx == uy * vz - uz * vy
        cy == uz * vx - ux * vz
        cz == ux * vy - uy * vx
    IN  cx * cx + cy * cy + cz * cz
            <= threshold * threshold * (vx * vx + vy * vy + vz * vz)

\* threshold >= max(threshold, distance of every interior point)
fast_line_check(points, threshold) ==
    \A i \in 2..(Len(points) - 1) :
        PointLineWithin(points[i], points[1], points[Len(points)], threshold)

\* util::order2_permutations(n, layer_sequence, f) with one set bit per
\* layer vector: every way to choose n of the layers and one point in each
\* chosen layer.  A choice is a sequence over the layers: 0 for a layer that
\* is not chosen, else the position (from 1) of the chosen point.
RECURSIVE order2_permutations(_, _)
order2_permutations(n, sizes) ==
    IF sizes = << >>
    THEN IF n = 0 THEN << << >> >> ELSE << >>
    ELSE LET without == order2_permutations(n, Tail(sizes))
             with == IF n > 0 THEN order2_permutations(n - 1, Tail(sizes))
                     ELSE << >>
             Prefixed(j, rest) == [i \in 1..Len(rest) |-> <<j>> \o rest[i]]
             ChoosePoint[j \in 0..Head(sizes)] ==
                 IF j = 0 THEN << >>
                 ELSE ChoosePoint[j - 1] \o Prefixed(j, with)
         IN  Prefixed(0, without) \o ChoosePoint[Head(sizes)]

\* mutant: the first point of every chosen layer, whatever bit is set
RECURSIVE SeedTupleFirst(_, _, _)
SeedTupleFirst(layers, choice, index) ==
    IF index >= Len(layers) THEN << >>
    ELSE (IF At(choice, index) # 0
          THEN <<At(layers, index)[1]>>
          ELSE << >>)
         \o SeedTupleFirst(layers, choice, index + 1)

\* the tuple built in the callback (lines 193-204): for every chosen layer,
\* the points of the layer whose bit is set
RECURSIVE SeedTuple(_, _, _)
SeedTuple(layers, choice, index) ==
    IF index >= Len(layers) THEN << >>
    ELSE (IF At(choice, index) # 0
          THEN <<At(layers, index)[At(choice, index)]>>
          ELSE << >>)
         \o SeedTuple(layers, choice, index + 1)

\* the callback over every choice: the tuple is sorted by time (t_sort sorts
\* it in place) and kept if it passes fast_line_check
RECURSIVE SeedCollect(_, _, _, _, _)
SeedCollect(layers, choices, line_dr, i, acc) ==
    IF i > Len(choices) THEN acc
    ELSE LET tuple == t_sort(SeedTuple(layers, choices[i], 0))
         IN  SeedCollect(layers, choices, line_dr, i + 1,
                         IF fast_line_check(tuple, line_dr)
                         THEN Append(acc, tuple) ELSE acc)

\* mutant: too few layers give the collapsed event back as the single seed
SeedFromWholeEvent(n, points, layer_dz, line_dr) ==
    IF Len(points) <= n
    THEN << points >>
    ELSE LET layers == partition(points, layer_dz, "Z").parts
             layer_sizes == [k \in 1..Len(layers) |-> Len(layers[k])]
         IN  IF Len(layers) < n
             THEN << points >>
             ELSE SeedCollect(layers, order2_permutations(n, layer_sizes),
                              line_dr, 1, << >>)

\* seed after collapse: points is the collapsed event
SeedFrom(n, points, layer_dz, line_dr) ==
    IF Len(points) <= n
    THEN << points >>
    ELSE LET layers == partition(points, layer_dz, "Z").parts
             layer_sizes == [k \in 1..Len(layers) |-> Len(layers[k])]
         IN  IF Len(layers) < n
             THEN << >>
             ELSE SeedCollect(layers, order2_permutations(n, layer_sizes),
                              line_dr, 1, << >>)

\* mutant: only n <= 1 is rejected
seed_reject_below_two(n, event, collapse_ds, layer_dz, line_dr, garbage) ==
    IF n <= 1
    THEN [points |-> [out |-> << >>, oob |-> FALSE], seeds |-> << >>]
    ELSE LET points == collapse(event, collapse_ds, garbage)
         IN  [points |-> points,
              seeds |-> SeedFrom(n, points.out, layer_dz, line_dr)]

\* seed(n, event, collapse_ds, layer_dz, line_dr): the collapsed event and
\* the seeds
seed(n, event, collapse_ds, layer_dz, line_dr, garbage) ==
    IF n <= 2
    THEN [points |-> [out |-> << >>, oob |-> FALSE], seeds |-> << >>]
    ELSE LET points == collapse(event, collapse_ds, garbage)
         IN  [points |-> points,
              seeds |-> SeedFrom(n, points.out, layer_dz, line_dr)]

---------------------------------------------------------------------------
(* State machine of one call of seed                                       *)

\* the hits of an event lie on a grid of times, x and z (y = 0); times are
\* in units of 1/SeedTimeUnit so that the mean time of a cluster is exact
SeedTimes == {0, 1}
SeedXs == {0, 1}
SeedZs == {0, 1, 2}

SeedTimeUnit == Factorial(MaxSeedEventLen)

SeedHits == {Pt(t * SeedTimeUnit, x, 0, z) : t \in SeedTimes, x \in SeedXs, z \in SeedZs}

\* collapse windows: a time window, equal positions
SeedWindows == {Pt(dt * SeedTimeUnit, 0, 0, 0) : dt \in {0, 1}}
LayerWidths == {0, 1}
LineWidths == {0, 1}

HitKey(p) == (p.t * 16 + p.z) * 16 + p.x

\* the hits of a set in time order (then z, then x)
RECURSIVE HitsInOrder(_)
HitsInOrder(S) ==
    IF S = {} THEN << >>
    ELSE LET p == CHOOSE q \in S : \A r \in S : HitKey(q) <= HitKey(r)
         IN  <<p>> \o HitsInOrder(S \ {p})

\* events: up to MaxSeedEventLen different hits, ascending in time
SeedEvents ==
    {HitsInOrder(S) : S \in {T \in SUBSET SeedHits : Cardinality(T) <= MaxSeedEventLen}}

SeedInit ==
    /\ FitIdle
    /\ JoinIdle
    /\ JoinAllIdle
    /\ PartIdle
    /\ CollIdle
    /\ seed_n \in 0..MaxSeedN
    /\ seed_event \in SeedEvents
    /\ seed_ds \in SeedWindows
    /\ seed_layer_dz \in LayerWidths
    /\ seed_line_dr \in LineWidths
    /\ seed_points = [out |-> << >>, oob |-> FALSE]
    /\ seed_result = << >>
    /\ seed_pc = "call"

Seed ==
    /\ seed_pc = "call"
    /\ \E garbage \in GarbageFor(seed_event, seed_ds, SeedHits) :
          LET r == seed(seed_n, seed_event, seed_ds, seed_layer_dz,
                        seed_line_dr, garbage)
          IN  /\ seed_points' = r.points
              /\ seed_result' = r.seeds
    /\ seed_pc' = "done"
    /\ UNCHANGED <<seed_n, seed_event, seed_ds, seed_layer_dz, seed_line_dr>>
    /\ UNCHANGED <<joinVars, joinAllVars, partVars, collVars>>
    /\ UNCHANGED fitVars

SeedNext == Seed

SpecSeed == SeedInit /\ [][SeedNext]_vars

---------------------------------------------------------------------------
(* Claims about seed                                                       *)

\* C8 as stated: every seed in the result of seed has at least 3 points.
C8_SeedsHaveThreePoints ==
    (seed_pc = "done" /\ ~seed_points.oob) =>
        \A k \in 1..Len(seed_result) : Len(seed_result[k]) >= 3

\* C9 as stated: every seed in the result of seed, sorted by time, passes
\* fast_line_check with line_dr.
C9_SeedsCollinear ==
    (seed_pc = "done" /\ ~seed_points.oob) =>
        \A k \in 1..Len(seed_result) :
            Len(seed_result[k]) >= 2 =>
                fast_line_check(t_sort(seed_result[k]), seed_line_dr)

SeedLayers == partition(seed_points.out, seed_layer_dz, "Z").parts

\* the ways to choose n layers and a point in each: functions from a set of
\* n layers to positions in the layer
SeedCandidates ==
    UNION {{f \in [C -> 1..Len(seed_points.out)] :
                \A l \in C : f[l] <= Len(SeedLayers[l])}
           : C \in {D \in SUBSET (1..Len(SeedLayers)) : Cardinality(D) = seed_n}}

\* the points of a candidate, in layer order
RECURSIVE CandidatePoints(_, _)
CandidatePoints(f, l) ==
    IF l > Len(SeedLayers) THEN << >>
    ELSE (IF l \in DOMAIN f THEN <<SeedLayers[l][f[l]]>> ELSE << >>)
         \o CandidatePoints(f, l + 1)

CandidateSeed(f) == t_sort(CandidatePoints(f, 1))

PassingCandidates ==
    {f \in SeedCandidates : fast_line_check(CandidateSeed(f), seed_line_dr)}

SeedPrecondition ==
    /\ seed_pc = "done"
    /\ seed_n >= 3
    /\ Len(seed_points.out) > seed_n
    /\ Len(SeedLayers) >= seed_n

C11_SmallNEmpty ==
    (seed_pc = "done" /\ seed_n <= 2) => seed_result = << >>

\* a call with n <= 2 on an event of at least three hits
C11_Witness ==
    /\ seed_pc = "done"
    /\ seed_n = 2
    /\ Len(seed_event) >= 3
    /\ seed_result = << >>

\* the collapsed event has more than n points in fewer than n layers (n >= 3)
TooFewLayers ==
    /\ seed_pc = "done"
    /\ seed_n >= 3
    /\ Len(seed_points.out) > seed_n
    /\ Len(SeedLayers) < seed_n

\* C12: when n >= 3 and the collapsed event has more than n points but its
\* partition by z with width layer_dz has fewer than n layers, seed returns
\* no seeds.
C12_TooFewLayersEmpty ==
    TooFewLayers => seed_result = << >>

\* such a call, with at least one layer
C12_Witness ==
    /\ TooFewLayers
    /\ Len(SeedLayers) >= 1
    /\ seed_result = << >>

---------------------------------------------------------------------------
(* State machine of one call of time_normalize: src/src/analysis.cc 45-53  *)

\* points of an event in any order
NormPoints == {Pt(t, x, 0, 0) : t \in 0..NormMaxT, x \in {0, 1}}

TimeNormalizeInit ==
    /\ SeedingIdle
    /\ norm_event \in SeqsOf(NormPoints, 0, MaxNormLen)
    /\ norm_result = << >>
    /\ norm_pc = "call"
    /\ TrackIdle
    /\ NllIdle
    /\ VertexIdle

TimeNormalize ==
    /\ norm_pc = "call"
    /\ norm_result' = time_normalize(norm_event)
    /\ norm_pc' = "done"
    /\ UNCHANGED norm_event
    /\ UNCHANGED <<seedingVars, trackVars, nllVars, vertexVars>>

TimeNormalizeNext == TimeNormalize

SpecTimeNormalize == TimeNormalizeInit /\ [][TimeNormalizeNext]_vars

---------------------------------------------------------------------------
(* Claims about time_normalize                                             *)

MinTime(event) ==
    CHOOSE m \in {event[i].t : i \in 1..Len(event)} :
        \A i \in 1..Len(event) : m <= event[i].t

\* C19 as stated: time_normalize of a non-empty event in any order returns
\* the points sorted ascending by t with the smallest input time subtracted
\* from every t (first t = 0, every t >= 0, x, y, z unchanged); the empty
\* event gives the empty event.
C19_TimeNormalized ==
    norm_pc = "done" =>
        IF norm_event = << >>
        THEN norm_result = << >>
        ELSE /\ norm_result = MapSub(t_copy_sort(norm_event),
                                     Pt(MinTime(norm_event), 0, 0, 0))
             /\ norm_result[1].t = 0
             /\ \A i \in 1..Len(norm_result) : norm_result[i].t >= 0

---------------------------------------------------------------------------
(* track: src/src/analysis.cc 373-410, 431-568, 614-616.  The optimizer     *)
(* (TMinuit) is a black box: the status it reports and the values it        *)
(* returns are inputs of the model.  Units (units::time, units::length,     *)
(* units::speed_of_light) are 1.                                            *)

\* a quotient of reals that the model does not carry out: den = 0 stands for
\* the infinity or NaN of a division by zero
Ratio(num, den) == [num |-> num, den |-> den]

ParameterNames == {"t0", "x0", "y0", "z0", "vx", "vy", "vz"}

\* _guess_track(event); front() and back() of an empty event are undefined:
\* garbage is what they read then
_guess_track(event, garbage) ==
    LET frst == IF event = << >> THEN garbage[1] ELSE event[1]
        last == IF event = << >> THEN garbage[2] ELSE event[Len(event)]
        dt == last.t - frst.t
    IN  [t0 |-> FitParameter(frst.t, 2, 0, 0),
         x0 |-> FitParameter(frst.x, 100, 0, 0),
         y0 |-> FitParameter(frst.y, 100, 0, 0),
         z0 |-> FitParameter(frst.z, 100, 0, 0),
         vx |-> FitParameter(Ratio(last.x - frst.x, dt), Ratio(1, 10), 0, 0),
         vy |-> FitParameter(Ratio(last.y - frst.y, dt), Ratio(1, 10), 0, 0),
         vz |-> FitParameter(Ratio(last.z - frst.z, dt), Ratio(1, 10), 0, 0)]

\* geometry::limits_of(geometry::volume(point)): every point lies at the
\* centre of a volume that extends one unit to either side in x and y
LimitsOf(point) ==
    [center |-> point,
     min |-> [x |-> point.x - 1, y |-> point.y - 1],
     max |-> [x |-> point.x + 1, y |-> point.y + 1]]

\* _track_squared_residual.  dt = (center.z - z0) / vz; the three residuals
\* are brought over the common denominator 2 * vz * x_extent * y_extent
_track_squared_residual(t0, x0, y0, z0, vx, vy, vz, point) ==
    LET limits == LimitsOf(point)
        center == limits.center
        x_extent == limits.max.x - limits.min.x
        y_extent == limits.max.y - limits.min.y
        dz == center.z - z0
        t_res == (dz + (t0 - point.t) * vz) * x_extent * y_extent
        x_res == 2 * (dz * vx + (x0 - center.x) * vz) * y_extent
        y_res == 2 * (dz * vy + (y0 - center.y) * vz) * x_extent
        den == 2 * vz * x_extent * y_extent
    IN  Ratio(t_res * t_res + 12 * x_res * x_res + 12 * y_res * y_res,
              den * den)

\* _fit_event(event, parameters, settings, fixed = Z) with the optimizer's
\* answer: error_flag is switched on, but every case of the switch is empty,
\* and the value and error of every parameter are taken from the optimizer
_fit_event(event, parameters, error_flag, returned) ==
    [p \in ParameterNames |->
        FitParameter(returned[p].value, returned[p].error,
                     parameters[p].min, parameters[p].max)]

\* the residual of every point of the event
Residuals(event, q) ==
    [i \in 1..Len(event) |->
        _track_squared_residual(q.t0.value, q.x0.value, q.y0.value, q.z0.value,
                                q.vx.value, q.vy.value, q.vz.value, event[i])]

\* track::track(event, settings)
TrackConstructor(event, error_flag, returned, garbage) ==
    LET guess == _guess_track(event, garbage)
        fit_track == _fit_event(event, guess, error_flag, returned)
    IN  [_event |-> event,
         _parameters |-> fit_track,
         _delta_chi_squared |-> Residuals(event, fit_track),
         _squared_residuals |-> Residuals(event, fit_track)]

\* mutant: 3 * N - 6 in signed arithmetic
degrees_of_freedom_signed(tr) == 3 * Len(tr._event) - 6

\* track::degrees_of_freedom(): 3 * _event.size() - 6 in size_t
degrees_of_freedom(tr) == USub((3 * Len(tr._event)) % SizeMod, 6)

---------------------------------------------------------------------------
(* State machine of the construction of one track                          *)

TrackPoints == {Pt(t, x, 0, z) : t \in {0, 1}, x \in {0, 1}, z \in {0, 1}}

\* status codes of the optimizer: 0 is success
ErrorFlags == {0, 4, 11}

\* what the optimizer can return for the parameters it was given: z0 is
\* fixed and comes back as given, with error 0
MinuitResults(parameters) ==
    {[p \in ParameterNames |->
        IF p = "z0" THEN [value |-> parameters.z0.value, error |-> 0]
        ELSE IF p \in {"vx", "vy", "vz"} THEN [value |-> v, error |-> 1]
        ELSE [value |-> r, error |-> 1]]
     : r \in {0, 1}, v \in {0, 1}}

\* what front() and back() of an empty event can read
TrackGarbage(event) ==
    IF event = << >> THEN {<<a, b>> : a \in TrackPoints, b \in {Pt(0, 0, 0, 0)}}
    ELSE {<<Pt(0, 0, 0, 0), Pt(0, 0, 0, 0)>>}

TrackInit ==
    /\ SeedingIdle
    /\ NormIdle
    /\ NllIdle
    /\ VertexIdle
    /\ track_event \in SeqsOf(TrackPoints, 0, MaxTrackLen)
    /\ minuit_in = NoParameters
    /\ minuit_flag = 0
    /\ minuit_out = NoParameters
    /\ track = NoTrack
    /\ track_ub = FALSE
    /\ track_pc = "call"

Track ==
    /\ track_pc = "call"
    /\ \E garbage \in TrackGarbage(track_event) :
       \E error_flag \in ErrorFlags :
          LET guess == _guess_track(track_event, garbage)
          IN  \E returned \in MinuitResults(guess) :
                /\ minuit_in' = guess
                /\ minuit_flag' = error_flag
                /\ minuit_out' = [p \in ParameterNames |->
                                    FitParameter(returned[p].value,
                                                 returned[p].error, 0, 0)]
                /\ track' = TrackConstructor(track_event, error_flag,
                                             returned, garbage)
    /\ track_ub' = (track_event = << >>)
    /\ track_pc' = "done"
    /\ UNCHANGED track_event
    /\ UNCHANGED <<seedingVars, normVars, nllVars, vertexVars>>

TrackNext == Track

SpecTrack == TrackInit /\ [][TrackNext]_vars

---------------------------------------------------------------------------
(* Claims about track                                                      *)

\* the values and errors of the parameters of a track
StoredValues(tr) ==
    [p \in ParameterNames |->
        [value |-> tr._parameters[p].value, error |-> tr._parameters[p].error]]

ReturnedValues ==
    [p \in ParameterNames |->
        [value |-> minuit_out[p].value, error |-> minuit_out[p].error]]

\* C17 as stated: when the optimizer returns a non-zero status for a track
\* fit, the values it returned are not stored as the fitted parameters of
\* the track.
C17_FailureSurfaced ==
    (track_pc = "done" /\ ~track_ub /\ minuit_flag # 0) =>
        StoredValues(track) # ReturnedValues

\* C20: degrees_of_freedom() of a track built from N points is 3N - 6, and
\* 3N - 6 modulo 2^w when N < 2.
C20_DegreesOfFreedom ==
    (track_pc = "done" /\ ~track_ub) =>
        LET N == Len(track_event)
        IN  /\ Len(track._event) = N
            /\ degrees_of_freedom(track)
                  = IF N >= 2 THEN 3 * N - 6 ELSE 3 * N - 6 + SizeMod

\* a track of one point: the result wraps around
C20_Witness ==
    /\ track_pc = "done"
    /\ Len(track_event) = 1
    /\ degrees_of_freedom(track) = SizeMod - 3

---------------------------------------------------------------------------
(* Fits on several threads: src/src/analysis.cc 414-427, 465-474 and        *)
(* src/src/tracker/analysis/vertex.cc 136-161.  Every fit has its own       *)
(* TMinuit; the objective callback reads the event (or the tracks) from a   *)
(* thread_local variable that the fit assigns before it runs the optimizer. *)
(* Events and track sets are numbered 1..NumFitInputs; 0 is the empty one.  *)

FitInputs == 1..NumFitInputs

\* mutant: one binding for the whole process (no thread_local)
ProcessInstance(th) == 1

\* thread_local: every thread has its own instance of the variable
ThreadLocalInstance(th) == th

\* a thread enters _fit_event (kind "track") or _fit_tracks_minuit (kind
\* "vertex") with an event or a track set, and assigns it to the binding:
\* _nll_fit_event = event, _nll_fit_tracks = tracks
BindFit(th, kind, input) ==
    /\ fit_pc[th] = "idle"
    /\ fit_kind' = [fit_kind EXCEPT ![th] = kind]
    /\ fit_bound' = [fit_bound EXCEPT ![th] = input]
    /\ IF kind = "track"
       THEN /\ _nll_fit_event' =
                  [_nll_fit_event EXCEPT ![ThreadLocalInstance(th)] = input]
            /\ UNCHANGED _nll_fit_tracks
       ELSE /\ _nll_fit_tracks' =
                  [_nll_fit_tracks EXCEPT ![ThreadLocalInstance(th)] = input]
            /\ UNCHANGED _nll_fit_event
    /\ fit_pc' = [fit_pc EXCEPT ![th] = "execute"]
    /\ nll_read' = [nll_read EXCEPT ![th] = 0]

\* the optimizer of the thread calls _gaussian_nll, which reads the binding
GaussianNll(th) ==
    /\ fit_pc[th] \in {"execute", "evaluated"}
    /\ nll_read' = [nll_read EXCEPT ![th] =
                       IF fit_kind[th] = "track"
                       THEN _nll_fit_event[ThreadLocalInstance(th)]
                       ELSE _nll_fit_tracks[ThreadLocalInstance(th)]]
    /\ fit_pc' = [fit_pc EXCEPT ![th] = "evaluated"]
    /\ UNCHANGED <<_nll_fit_event, _nll_fit_tracks, fit_kind, fit_bound>>

\* the optimizer returns and the fit ends: its arguments and what its
\* callback read go out of scope, the binding keeps its value
EndFit(th) ==
    /\ fit_pc[th] \in {"execute", "evaluated"}
    /\ fit_pc' = [fit_pc EXCEPT ![th] = "idle"]
    /\ fit_kind' = [fit_kind EXCEPT ![th] = "track"]
    /\ fit_bound' = [fit_bound EXCEPT ![th] = 0]
    /\ nll_read' = [nll_read EXCEPT ![th] = 0]
    /\ UNCHANGED <<_nll_fit_event, _nll_fit_tracks>>

ThreadsInit ==
    /\ SeedingIdle
    /\ NormIdle
    /\ TrackIdle
    /\ VertexIdle
    /\ NllIdle

ThreadsNext ==
    /\ \E th \in Threads :
          \/ \E kind \in {"track", "vertex"}, input \in FitInputs :
                BindFit(th, kind, input)
          \/ GaussianNll(th)
          \/ EndFit(th)
    /\ UNCHANGED <<seedingVars, normVars, trackVars, vertexVars>>

SpecThreads == ThreadsInit /\ [][ThreadsNext]_vars

---------------------------------------------------------------------------
(* Claims about concurrent fits                                            *)

\* the binding that the callback of a fit of thread th reads
BindingOf(th) ==
    IF fit_kind[th] = "track"
    THEN _nll_fit_event[ThreadLocalInstance(th)]
    ELSE _nll_fit_tracks[ThreadLocalInstance(th)]

\* C18: while a fit is in flight on a thread, the binding its callback reads
\* is the event (or track set) that this fit bound, and so is what every
\* evaluation of the callback has read, whatever the other threads do.
C18_OwnBinding ==
    \A th \in Threads :
        /\ fit_pc[th] \in {"execute", "evaluated"} => BindingOf(th) = fit_bound[th]
        /\ fit_pc[th] = "evaluated" => nll_read[th] = fit_bound[th]

\* two fits of the same kind in flight at once on different inputs, both
\* with evaluations of the callback
C18_Witness ==
    \E a, b \in Threads :
        /\ a # b
        /\ fit_pc[a] = "evaluated"
        /\ fit_pc[b] = "evaluated"
        /\ fit_kind[a] = fit_kind[b]
        /\ fit_bound[a] # fit_bound[b]
        /\ nll_read[a] = fit_bound[a]
        /\ nll_read[b] = fit_bound[b]

---------------------------------------------------------------------------
(* vertex: src/src/tracker/analysis/vertex.cc.  A track is a record of its  *)
(* identity, the point where it starts (track.at_t(track.full_front().t))   *)
(* and the error of that point; tracks are at rest, so that at_t gives the  *)
(* same point for every time.  The optimizer (TMinuit behind                *)
(* helper::minuit) is a black box: its report and the values it returns     *)
(* are inputs of the model.                                                 *)

\* the largest number of tracks a vertex of the model holds
MaxVertexTracks == NumTracks + MaxVertexCalls

\* positions are multiples of 1/VertexUnit of the grid of the fronts, so
\* that the average of up to MaxVertexTracks points is exact
VertexUnit == Factorial(MaxVertexTracks)

RECURSIVE SumSeq(_)
SumSeq(q) == IF q = << >> THEN 0 ELSE Head(q) + SumSeq(Tail(q))

\* errors are carried as 12 times their squares: an error as it is ...
PlainError(e) == 12 * e * e

\* ... and stat::error::uniform(width) = width / sqrt(12)
uniform(width) == width * width

\* stat::error::propagate_average(errors) = sqrt(sum of squares) / n, in
\* units of 1/VertexUnit
propagate_average(errors) ==
    LET k == VertexUnit \div Len(errors)
    IN  SumSeq(errors) * k * k

RECURSIVE SumPoints(_)
SumPoints(q) ==
    IF q = << >> THEN Pt(0, 0, 0, 0) ELSE PtAdd(Head(q), SumPoints(Tail(q)))

\* _guess_vertex(tracks)
_guess_vertex(tracks) ==
    LET size == Len(tracks)
        track_fronts == [i \in 1..size |->
            [point |-> tracks[i].front,
             width |-> Pt(tracks[i].width, tracks[i].width,
                          tracks[i].width, tracks[i].width)]]
        t_errors == [i \in 1..size |-> PlainError(track_fronts[i].width.t)]
        x_errors == [i \in 1..size |-> uniform(track_fronts[i].width.x)]
        y_errors == [i \in 1..size |-> uniform(track_fronts[i].width.y)]
        z_errors == [i \in 1..size |-> uniform(track_fronts[i].width.z)]
        average_point ==
            PtDiv(SumPoints([i \in 1..size |-> track_fronts[i].point]), size)
    IN  [t |-> FitParameter(average_point.t, propagate_average(t_errors), 0, 0),
         x |-> FitParameter(average_point.x, propagate_average(x_errors), 0, 0),
         y |-> FitParameter(average_point.y, propagate_average(y_errors), 0, 0),
         z |-> FitParameter(average_point.z, propagate_average(z_errors), 0, 0)]

\* _fit_tracks_minuit(tracks, parameters, covariance_matrix) with the
\* optimizer's answer: on divergence the arguments are left as they are
_fit_tracks_minuit(tracks, parameters, covariance_matrix, outcome) ==
    IF outcome.status = "diverged"
    THEN [ok |-> FALSE, parameters |-> parameters,
          covariance |-> covariance_matrix]
    ELSE [ok |-> TRUE,
          parameters |-> [p \in {"t", "x", "y", "z"} |->
              FitParameter(outcome.point[p], outcome.error,
                           parameters[p].min, parameters[p].max)],
          covariance |-> outcome.covariance]

\* _vertex_squared_residual(t, x, y, z, track) = (distance / error)^2 with
\* the distance in space of the track from (x, y, z) at time t and its
\* propagated error.  The gradient of the distance has the factor
\* 1 / distance: at distance 0 the error, and the residual, are NaN.
_vertex_squared_residual(t, x, y, z, trk) ==
    LET track_point == trk.front
        dx == track_point.x - x
        dy == track_point.y - y
        dz == track_point.z - z
        distance2 == dx * dx + dy * dy + dz * dz
    IN  IF distance2 = 0 THEN Ratio(0, 0)
        ELSE Ratio(distance2, trk.width * trk.width)

\* vector::resize(n, value)
Resize(q, n, value) ==
    IF Len(q) >= n THEN SubSeq(q, 1, n)
    ELSE q \o [i \in 1..(n - Len(q)) |-> value]

\* vertex::size()
size(v) == Len(v._tracks)

\* vertex::reset(tracks): the new object, the value returned and what the
\* optimizer reported ("none": it was not run).  The residuals of a fit that
\* converged are appended to _delta_chi2, which is not cleared.
reset(v, tracks, outcome) ==
    LET new_size == Len(tracks)
        guess == _guess_vertex(tracks)
        fit == _fit_tracks_minuit(tracks, guess, v._covariance, outcome)
        final == fit.parameters
    IN  IF new_size > 1 /\ fit.ok
        THEN [v |-> [_tracks |-> tracks, _guess |-> guess, _final |-> final,
                     _covariance |-> fit.covariance,
                     _delta_chi2 |-> v._delta_chi2 \o [i \in 1..new_size |->
                         _vertex_squared_residual(final.t.value, final.x.value,
                             final.y.value, final.z.value, tracks[i])]],
              ret |-> new_size, refit |-> "converged"]
        ELSE [v |-> [_tracks |-> tracks,
                     _guess |-> IF new_size > 1 THEN guess ELSE v._guess,
                     _final |-> NoFit, _covariance |-> NoCovariance,
                     _delta_chi2 |-> Resize(v._delta_chi2, new_size, Ratio(0, 1))],
              ret |-> new_size,
              refit |-> IF new_size > 1 THEN "diverged" ELSE "none"]

\* vertex::fit_diverged()
fit_diverged(v) == v._guess # v._final /\ v._final = NoFit

\* vertex::chi_squared_vector()
chi_squared_vector(v) == v._delta_chi2

\* a call that returns without reset
Untouched(v) == [v |-> v, ret |-> size(v), refit |-> "skipped"]

\* vertex::insert(track): the track is appended when std::find finds it
insert(v, trk, outcome) ==
    IF \E i \in 1..size(v) : v._tracks[i] = trk
    THEN reset(v, Append(v._tracks, trk), outcome)
    ELSE Untouched(v)

\* the copy_if of vertex::insert(tracks): a track is appended when std::find
\* finds it among the tracks held so far, those just appended included
RECURSIVE CopyIfFound(_, _)
CopyIfFound(own, tracks) ==
    IF tracks = << >> THEN own
    ELSE CopyIfFound(IF \E i \in 1..Len(own) : own[i] = Head(tracks)
                     THEN Append(own, Head(tracks)) ELSE own,
                     Tail(tracks))

\* vertex::insert(tracks): reset is called whether or not a track was added
insert_tracks(v, tracks, outcome) ==
    reset(v, CopyIfFound(v._tracks, tracks), outcome)

\* mutant: the track next to index is left out
removeNext(v, index, outcome) ==
    LET s == size(v)
    IN  IF index >= s THEN Untouched(v)
        ELSE reset(v, SubSeq(v._tracks, 1, index + 1)
                          \o SubSeq(v._tracks, index + 3, s), outcome)

\* vertex::remove(index)
remove(v, index, outcome) ==
    LET s == size(v)
    IN  IF index >= s THEN Untouched(v)
        ELSE reset(v, SubSeq(v._tracks, 1, index)
                          \o SubSeq(v._tracks, index + 2, s), outcome)

\* util::algorithm::copy_sort_range(indices): a sorted copy
RECURSIVE copy_sort_range(_)
copy_sort_range(indices) ==
    IF indices = << >> THEN << >>
    ELSE LET rest == copy_sort_range(Tail(indices))
             below == SelectSeq(rest, LAMBDA k : k <= Head(indices))
             above == SelectSeq(rest, LAMBDA k : k > Head(indices))
         IN  below \o <<Head(indices)>> \o above

\* the loop of vertex::remove(indices).  sorted[removal_index] is read also
\* when removal_index has reached the size of sorted: what is read then
\* equals hit_index at the hit index `garbage` and nowhere else.
RECURSIVE RemoveLoop(_, _, _, _, _, _, _)
RemoveLoop(tracks, sorted, hit_index, removal_index, saved_tracks, oob, garbage) ==
    IF hit_index >= Len(tracks)
    THEN [saved_tracks |-> saved_tracks, oob |-> oob]
    ELSE LET past == removal_index >= Len(sorted)
             found == IF past THEN garbage = hit_index
                      ELSE At(sorted, removal_index) = hit_index
         IN  IF found
             THEN RemoveLoop(tracks, sorted, hit_index + 1, removal_index + 1,
                             saved_tracks, oob \/ past, garbage)
             ELSE RemoveLoop(tracks, sorted, hit_index + 1, removal_index,
                             Append(saved_tracks, At(tracks, hit_index)),
                             oob \/ past, garbage)

\* vertex::remove(indices)
remove_indices(v, indices, outcome, garbage) ==
    LET sorted == copy_sort_range(indices)
        loop == RemoveLoop(v._tracks, sorted, 0, 0, << >>, FALSE, garbage)
    IN  [call |-> reset(v, loop.saved_tracks, outcome), oob |-> loop.oob]

\* chi_squared_vector()[i] > max_chi_squared, in floating point: true of
\* infinity (den = 0 < num), false of NaN (num = den = 0)
Exceeds(chi2, max_chi_squared) == chi2.num > max_chi_squared * chi2.den

\* the indices collected by prune_on_chi_squared
RECURSIVE PruneIndices(_, _, _, _)
PruneIndices(v, max_chi_squared, i, indices) ==
    IF i >= size(v) THEN indices
    ELSE PruneIndices(v, max_chi_squared, i + 1,
                      IF Exceeds(At(chi_squared_vector(v), i), max_chi_squared)
                      THEN Append(indices, i) ELSE indices)

\* vertex::prune_on_chi_squared(max_chi_squared)
prune_on_chi_squared(v, max_chi_squared, outcome, garbage) ==
    remove_indices(v, PruneIndices(v, max_chi_squared, 0, << >>), outcome, garbage)

---------------------------------------------------------------------------
(* State machine of a vertex: construction, then up to MaxVertexCalls calls *)

TrackIds == 1..NumTracks

\* where a track can start, and the errors it can have
FrontPoints == {Pt(f * VertexUnit, f * VertexUnit, 0, 0) : f \in {0, 1}}
FrontWidths == {0, 1}

\* what the optimizer can answer: divergence, or a vertex with its errors
\* and covariance matrix
MinuitOutcomes ==
    {[status |-> "diverged", point |-> Pt(0, 0, 0, 0), error |-> 0,
      covariance |-> NoCovariance]}
    \cup {[status |-> "converged", point |-> q, error |-> PlainError(1),
           covariance |-> [i \in 0..15 |-> IF i \div 4 = i % 4 THEN 1 ELSE 0]]
          : q \in FrontPoints}

\* the optimizer runs only on two tracks or more
OutcomesFor(n) ==
    IF n > 1 THEN MinuitOutcomes
    ELSE {[status |-> "diverged", point |-> Pt(0, 0, 0, 0), error |-> 0,
           covariance |-> NoCovariance]}

PruneLimits == {0, VertexUnit * VertexUnit}

\* the track vectors a vertex is built from: different tracks
TrackVectors ==
    {q \in SeqsOf(TrackIds, 0, NumTracks) :
        \A i, j \in 1..Len(q) : i < j => q[i] < q[j]}

\* the index lists offered to remove(indices): up to MaxIndices different
\* indices of tracks of the vertex, ascending (remove sorts its copy)
IndexVectors(v) ==
    {q \in SeqsOf(0..(size(v) - 1), 0, MaxIndices) :
        \A i, j \in 1..Len(q) : i < j => q[i] < q[j]}

\* the hit indices at which a read past the end of the index list can be
\* taken for the hit index; -1: at none
GarbageIndices(v, indices) ==
    IF RemoveLoop(v._tracks, copy_sort_range(indices), 0, 0, << >>, FALSE, -1).oob
    THEN (-1)..(size(v) - 1)
    ELSE {-1}

\* where the tracks of the pool start: a vertex is built from the fronts
\* of its tracks only, so the pool is taken with the tracks in the order of
\* their fronts
TrackFronts ==
    {fronts \in [TrackIds -> FrontPoints] :
        \A i, j \in TrackIds : i < j => fronts[i].x <= fronts[j].x}

VertexInit ==
    /\ SeedingIdle
    /\ NormIdle
    /\ TrackIdle
    /\ NllIdle
    /\ \E w \in FrontWidths :
          track_pool \in {[id \in TrackIds |->
                              [id |-> id, front |-> fronts[id], width |-> w]]
                          : fronts \in TrackFronts}
    /\ vertex = NoVertex
    /\ vertex_before = NoVertex
    /\ vertex_call = [op |-> "new", arg |-> 0]
    /\ vertex_ret = 0
    /\ vertex_fit = "none"
    /\ vertex_fit_before = "none"
    /\ vertex_oob = FALSE
    /\ vertex_calls = 0

\* the state after a call with result r
Called(op, arg, r, oob) ==
    /\ vertex' = r.v
    /\ vertex_ret' = r.ret
    /\ vertex_fit' = IF r.refit = "skipped" THEN vertex_fit ELSE r.refit
    /\ vertex_before' = vertex
    /\ vertex_fit_before' = vertex_fit
    /\ vertex_call' = [op |-> op, arg |-> arg]
    /\ vertex_oob' = (vertex_oob \/ oob)
    /\ UNCHANGED track_pool
    /\ UNCHANGED <<seedingVars, normVars, trackVars, nllVars>>

\* vertex::vertex(tracks)
VertexConstruct ==
    /\ vertex_call.op = "new"
    /\ \E ids \in TrackVectors :
          LET tracks == [i \in 1..Len(ids) |-> track_pool[ids[i]]]
          IN  \E outcome \in OutcomesFor(Len(tracks)) :
                Called("vertex", ids, reset(vertex, tracks, outcome), FALSE)
    /\ UNCHANGED vertex_calls

VertexInsert ==
    /\ vertex_call.op # "new"
    /\ vertex_calls < MaxVertexCalls
    /\ \E id \in TrackIds :
       \E outcome \in OutcomesFor(size(vertex) + 1) :
          Called("insert", id, insert(vertex, track_pool[id], outcome), FALSE)
    /\ vertex_calls' = vertex_calls + 1

VertexRemove ==
    /\ vertex_call.op # "new"
    /\ vertex_calls < MaxVertexCalls
    /\ \E index \in 0..size(vertex) :
       \E outcome \in OutcomesFor(size(vertex) - 1) :
          Called("remove", index, remove(vertex, index, outcome), FALSE)
    /\ vertex_calls' = vertex_calls + 1

VertexPrune ==
    /\ vertex_call.op # "new"
    /\ vertex_calls < MaxVertexCalls
    /\ \E max_chi_squared \in PruneLimits :
          LET indices == PruneIndices(vertex, max_chi_squared, 0, << >>)
          IN  \E garbage \in GarbageIndices(vertex, indices) :
              \E outcome \in OutcomesFor(size(vertex)) :
                LET r == prune_on_chi_squared(vertex, max_chi_squared,
                                              outcome, garbage)
                IN  Called("prune", max_chi_squared, r.call, r.oob)
    /\ vertex_calls' = vertex_calls + 1

\* vertex::reset(tracks), called from outside
VertexReset ==
    /\ vertex_call.op # "new"
    /\ vertex_calls < MaxVertexCalls
    /\ \E ids \in TrackVectors :
          LET tracks == [i \in 1..Len(ids) |-> track_pool[ids[i]]]
          IN  \E outcome \in OutcomesFor(Len(tracks)) :
                Called("reset", ids, reset(vertex, tracks, outcome), FALSE)
    /\ vertex_calls' = vertex_calls + 1

\* vertex::insert(tracks)
VertexInsertTracks ==
    /\ vertex_call.op # "new"
    /\ vertex_calls < MaxVertexCalls
    /\ \E ids \in TrackVectors :
          LET tracks == [i \in 1..Len(ids) |-> track_pool[ids[i]]]
          IN  /\ size(vertex) + Len(tracks) <= MaxVertexTracks
              /\ \E outcome \in OutcomesFor(Len(CopyIfFound(vertex._tracks, tracks))) :
                    Called("insert_tracks", ids,
                           insert_tracks(vertex, tracks, outcome), FALSE)
    /\ vertex_calls' = vertex_calls + 1

\* vertex::remove(indices), called from outside
VertexRemoveIndices ==
    /\ vertex_call.op # "new"
    /\ vertex_calls < MaxVertexCalls
    /\ \E indices \in IndexVectors(vertex) :
       \E garbage \in GarbageIndices(vertex, indices) :
       \E outcome \in OutcomesFor(size(vertex)) :
          LET r == remove_indices(vertex, indices, outcome, garbage)
          IN  Called("remove_indices", indices, r.call, r.oob)
    /\ vertex_calls' = vertex_calls + 1

VertexNext ==
    \/ VertexConstruct
    \/ VertexReset
    \/ VertexInsert
    \/ VertexInsertTracks
    \/ VertexRemove
    \/ VertexRemoveIndices
    \/ VertexPrune

SpecVertex == VertexInit /\ [][VertexNext]_vars

---------------------------------------------------------------------------
(* Claims about vertex                                                     *)

\* the refit of a call ran on the tracks the vertex holds now: with two
\* tracks or more the guess is computed from them and the optimizer was run,
\* and the final parameters and covariance are zero unless it converged
RefitFromTracks ==
    IF size(vertex) > 1
    THEN /\ vertex._guess = _guess_vertex(vertex._tracks)
         /\ vertex_fit \in {"converged", "diverged"}
         /\ vertex_fit = "diverged" =>
               (vertex._final = NoFit /\ vertex._covariance = NoCovariance)
    ELSE /\ vertex_fit = "none"
         /\ vertex._final = NoFit
         /\ vertex._covariance = NoCovariance

InsertOfNewTrack ==
    /\ vertex_call.op = "insert"
    /\ \A i \in 1..size(vertex_before) :
          vertex_before._tracks[i] # track_pool[vertex_call.arg]

\* C13 as stated: insert(track) of a track that is not in the vertex adds
\* the track, refits on the enlarged set and returns the previous track
\* count plus one.
C13_InsertAdds ==
    InsertOfNewTrack =>
        /\ vertex._tracks = Append(vertex_before._tracks,
                                   track_pool[vertex_call.arg])
        /\ vertex_ret = size(vertex_before) + 1
        /\ RefitFromTracks

\* C14: remove(index) with index < size() removes the track at index and
\* keeps the others in order, refits from them and returns size() - 1; with
\* index >= size() it changes nothing and returns size().
C14_Remove ==
    vertex_call.op = "remove" =>
        LET s == size(vertex_before)
            index == vertex_call.arg
        IN  IF index < s
            THEN /\ vertex._tracks =
                       [i \in 1..(s - 1) |->
                           IF i <= index THEN vertex_before._tracks[i]
                           ELSE vertex_before._tracks[i + 1]]
                 /\ vertex_ret = s - 1
                 /\ RefitFromTracks
            ELSE /\ vertex = vertex_before
                 /\ vertex_fit = vertex_fit_before
                 /\ vertex_ret = s

\* the middle one of three tracks is removed and the refit converges
C14_Witness ==
    /\ vertex_call.op = "remove"
    /\ size(vertex_before) = 3
    /\ vertex_call.arg = 1
    /\ vertex._tracks = <<vertex_before._tracks[1], vertex_before._tracks[3]>>
    /\ vertex_fit = "converged"
    /\ vertex_ret = 2

\* the contribution of every track of the vertex before the call in the fit
\* that preceded the call (zero if that fit did not converge or did not run)
ContributionsBefore ==
    LET final == vertex_before._final
    IN  [i \in 1..size(vertex_before) |->
            IF vertex_fit_before = "converged"
            THEN _vertex_squared_residual(final.t.value, final.x.value,
                     final.y.value, final.z.value, vertex_before._tracks[i])
            ELSE Ratio(0, 1)]

RECURSIVE WithinLimit(_, _, _, _)
WithinLimit(tracks, contributions, max_chi_squared, i) ==
    IF i > Len(tracks) THEN << >>
    ELSE (IF Exceeds(contributions[i], max_chi_squared) THEN << >>
          ELSE <<tracks[i]>>)
         \o WithinLimit(tracks, contributions, max_chi_squared, i + 1)

\* C15 as stated: after prune_on_chi_squared(max) the vertex holds exactly
\* the tracks whose contribution in the preceding fit did not exceed max.
C15_PruneOnChiSquared ==
    (vertex_call.op = "prune" /\ ~vertex_oob) =>
        vertex._tracks = WithinLimit(vertex_before._tracks, ContributionsBefore,
                                     vertex_call.arg, 1)

\* C16 as stated: when the optimizer reports divergence in a refit of two
\* tracks or more, the final parameters and the covariance matrix are zero,
\* the guess is the one computed from the tracks, and fit_diverged() is
\* true.
C16_DivergenceSignalled ==
    (vertex_fit = "diverged" /\ ~vertex_oob) =>
        /\ size(vertex) > 1
        /\ vertex._final = NoFit
        /\ vertex._covariance = NoCovariance
        /\ vertex._guess = _guess_vertex(vertex._tracks)
        /\ fit_diverged(vertex)

\* C27 as stated: after construction and after any sequence of reset,
\* insert, remove and prune_on_chi_squared calls the per-track chi-squared
\* vector has exactly one entry per current track: entry i is track i's
\* contribution computed in the latest refit, or 0 when the latest refit
\* did not converge or there are fewer than two tracks.
C27_ChiSquaredPerTrack ==
    (vertex_call.op # "new" /\ ~vertex_oob) =>
        LET final == vertex._final
        IN  /\ Len(chi_squared_vector(vertex)) = size(vertex)
            /\ \A i \in 1..Min(size(vertex), Len(chi_squared_vector(vertex))) :
                  chi_squared_vector(vertex)[i] =
                      IF vertex_fit = "converged"
                      THEN _vertex_squared_residual(final.t.value, final.x.value,
                               final.y.value, final.z.value, vertex._tracks[i])
                      ELSE Ratio(0, 1)

\* C28 as stated: remove(indices) never reads its sorted index list past
\* its end, for every index list including the empty one and lists whose
\* largest index is below size() - 1; in particular prune_on_chi_squared(max)
\* called when no track's contribution exceeds max removes no track and
\* returns size().
C28_RemoveReadsInBounds ==
    /\ ~vertex_oob
    /\ (/\ vertex_call.op = "prune"
        /\ PruneIndices(vertex_before, vertex_call.arg, 0, << >>) = << >>)
       => /\ vertex._tracks = vertex_before._tracks
          /\ vertex_ret = size(vertex_before)

\* C29 as stated: in every state reachable by constructing a Vertex and
\* applying any sequence of reset, insert, remove and prune_on_chi_squared,
\* fit_diverged() is true exactly when the most recent refit ran the
\* optimizer and the optimizer reported divergence; a Vertex left with
\* fewer than two tracks is not reported as diverged because of a guess
\* left over from an earlier fit.
C29_FitDivergedExact ==
    (vertex_call.op # "new" /\ ~vertex_oob) =>
        (fit_diverged(vertex) <=> vertex_fit = "diverged")

\* C30 as stated: a Vertex built from pairwise distinct tracks never holds
\* the same track twice: after any sequence of insert(track) and
\* insert(tracks) calls, including inserts of tracks that are already
\* present, no two entries of its track collection are equal.
C30_NoDuplicates ==
    ~vertex_oob =>
        \A i, j \in 1..size(vertex) :
            i # j => vertex._tracks[i] # vertex._tracks[j]

=============================================================================
